---- MODULE Spec2Model ----
(***************************************************************************)
(* Model of src/data/Api.ts: the status-dispatching response decoders      *)
(* (responseDecoder, authResponseDecoder), the five envelope sub-decoders  *)
(* and the two no-op decoders.                                             *)
(*                                                                         *)
(* The combinators of the "decoders" package that Api.ts imports as JD are *)
(* modelled by what they do on the values below: constant is ===, string   *)
(* is typeof "string", unknown accepts anything (undefined included),      *)
(* never rejects everything, either tries its alternatives in order,       *)
(* object requires a plain object, runs each field decoder on the field's  *)
(* raw value (undefined when the key is absent), keeps only the known keys *)
(* whose decoded value is not undefined, and .transform turns an exception *)
(* of its callback into a decode failure.                                  *)
(***************************************************************************)
EXTENDS Integers, FiniteSets, Sequences, TLC

\* Largest JSON number that payload fields carry (numbers are 0..MaxNum).
MaxNum == 1

----------------------------------------------------------------------------
(* Untrusted values: parsed JSON plus JavaScript's undefined.              *)

Undef == [t |-> "undef"]
Null == [t |-> "null"]
Arr == [t |-> "arr"]
Str(s) == [t |-> "str", s |-> s]
Num(n) == [t |-> "num", n |-> n]
Obj(f) == [t |-> "obj", f |-> f]

\* obj[key] in JavaScript: undefined when the key is absent.
Field(blob, key) ==
  IF blob.t = "obj" /\ key \in DOMAIN blob.f THEN blob.f[key] ELSE Undef

Unauthorised == Str("UNAUTHORISED")

(* Outcome of running a decoder: a DecodeResult ("ok" with the decoded     *)
(* value, or "err"), or an exception leaving the call ("throw").           *)
Ok(v) == [k |-> "ok", value |-> v]
Err == [k |-> "err", value |-> Undef]
Throw == [k |-> "throw", value |-> Undef]

----------------------------------------------------------------------------
(* Decoders a caller may pass as errorDecoder / dataDecoder.               *)

NoArg == [k |-> "none", lit |-> ""]
DString == [k |-> "string", lit |-> ""]
DUnknown == [k |-> "unknown", lit |-> ""]
DOptionalString == [k |-> "optionalString", lit |-> ""]
DStringLength == [k |-> "stringLength", lit |-> ""]
DConstant(lit) == [k |-> "constant", lit |-> lit]

CallerDecoders ==
  {DString, DUnknown, DOptionalString, DStringLength, DConstant("NOT_FOUND")}

JD_constant(lit, blob) == IF blob = Str(lit) THEN Ok(blob) ELSE Err

JD_string(blob) == IF blob.t = "str" THEN Ok(blob) ELSE Err

JD_unknown(blob) == Ok(blob)

JD_never(blob) == Err

\* decoder.decode(blob) for a leaf decoder.
Run(dec, blob) ==
  CASE dec.k = "string" -> JD_string(blob)
    [] dec.k = "unknown" -> JD_unknown(blob)
    [] dec.k = "constant" -> JD_constant(dec.lit, blob)
    [] dec.k = "optionalString" ->
         IF blob = Undef THEN Ok(Undef) ELSE JD_string(blob)
    [] dec.k = "stringLength" ->
         IF blob.t = "str" THEN Ok(Num(Len(blob.s))) ELSE Err
    [] OTHER -> JD_never(blob)

\* JD.either(a, b).decode(blob): the first alternative that accepts wins.
JD_either(a, b, blob) ==
  IF Run(a, blob).k = "ok" THEN Run(a, blob) ELSE Run(b, blob)

\* decoder.verify(blob): the decoded value, or an exception.
Verify(result) == IF result.k = "ok" THEN result ELSE Throw

\* JD.object(shape).decode(blob)
JD_object(shape, blob) ==
  IF blob.t # "obj" THEN Err
  ELSE LET res == [key \in DOMAIN shape |-> Run(shape[key], Field(blob, key))]
       IN IF \E key \in DOMAIN shape : res[key].k # "ok" THEN Err
          ELSE Ok(Obj([key \in {x \in DOMAIN shape : res[x].value # Undef}
                         |-> res[key].value]))

\* Variant of Transform: the callback's exception is not caught.
TransformNoCatch(fnResult) == fnResult

\* .transform(fn): an exception thrown by fn is a decode failure.
Transform(fnResult) == IF fnResult.k = "throw" THEN Err ELSE fnResult

----------------------------------------------------------------------------
(* The envelope sub-decoders, applied to a payload.                        *)

\* Variant of ok200Decoder: data is checked but the raw field is returned.
ok200DecoderRawData(dataDecoder, blob) ==
  LET r == JD_object([key \in {"_t", "data"} |->
                        IF key = "_t" THEN DConstant("Ok") ELSE DUnknown], blob)
  IN IF r.k # "ok" THEN r
     ELSE IF Run(dataDecoder, Field(r.value, "data")).k # "ok" THEN Err
     ELSE Ok(Obj([key \in {"_t", "data"} |-> Field(r.value, key)]))

\* Variant of ok200Decoder: the tag is only required to be a string.
ok200DecoderAnyTag(dataDecoder, blob) ==
  LET r == JD_object([key \in {"_t", "data"} |->
                        IF key = "_t" THEN DString ELSE DUnknown], blob)
  IN IF r.k # "ok" THEN r
     ELSE LET data == Verify(Run(dataDecoder, Field(r.value, "data")))
          IN Transform(IF data.k = "throw" THEN Throw
                       ELSE Ok(Obj([key \in {"_t", "data"} |->
                              IF key = "_t" THEN Field(r.value, "_t")
                              ELSE data.value])))

ok200Decoder(dataDecoder, blob) ==
  LET r == JD_object([key \in {"_t", "data"} |->
                        IF key = "_t" THEN DConstant("Ok") ELSE DUnknown], blob)
  IN IF r.k # "ok" THEN r
     ELSE LET data == Verify(Run(dataDecoder, Field(r.value, "data")))
          IN Transform(IF data.k = "throw" THEN Throw
                       ELSE Ok(Obj([key \in {"_t", "data"} |->
                              IF key = "_t" THEN Field(r.value, "_t")
                              ELSE data.value])))

\* Variant of err400Decoder: the literal "UNAUTHORISED" is accepted as well.
err400DecoderWithLiteral(errorDecoder, blob) ==
  LET r == JD_object([key \in {"_t", "code"} |->
                        IF key = "_t" THEN DConstant("Err") ELSE DUnknown], blob)
  IN IF r.k # "ok" THEN r
     ELSE LET code == JD_either(DConstant("UNAUTHORISED"), errorDecoder,
                                Field(r.value, "code"))
          IN IF code.k # "ok" THEN Err
             ELSE Ok(Obj([key \in {"_t", "code"} |->
                       IF key = "_t" THEN Field(r.value, "_t") ELSE code.value]))

err400Decoder(errorDecoder, blob) ==
  LET r == JD_object([key \in {"_t", "code"} |->
                        IF key = "_t" THEN DConstant("Err") ELSE DUnknown], blob)
  IN IF r.k # "ok" THEN r
     ELSE LET code == Verify(Run(errorDecoder, Field(r.value, "code")))
          IN Transform(IF code.k = "throw" THEN Throw
                       ELSE Ok(Obj([key \in {"_t", "code"} |->
                              IF key = "_t" THEN Field(r.value, "_t")
                              ELSE code.value])))

\* Variant of authErr400Decoder: errorDecoder is tried before the literal.
authErr400DecoderSwapped(errorDecoder, blob) ==
  LET r == JD_object([key \in {"_t", "code"} |->
                        IF key = "_t" THEN DConstant("Err") ELSE DUnknown], blob)
  IN IF r.k # "ok" THEN r
     ELSE LET code == IF Run(errorDecoder, Field(r.value, "code")).k = "ok"
                      THEN Run(errorDecoder, Field(r.value, "code"))
                      ELSE JD_constant("UNAUTHORISED", Field(r.value, "code"))
          IN IF code.k # "ok" THEN Err
             ELSE Ok(Obj([key \in {"_t", "code"} |->
                       IF key = "_t" THEN Field(r.value, "_t") ELSE code.value]))

authErr400Decoder(errorDecoder, blob) ==
  LET r == JD_object([key \in {"_t", "code"} |->
                        IF key = "_t" THEN DConstant("Err") ELSE DUnknown], blob)
  IN IF r.k # "ok" THEN r
     ELSE LET code == Verify(JD_either(DConstant("UNAUTHORISED"), errorDecoder,
                                       Field(r.value, "code")))
          IN Transform(IF code.k = "throw" THEN Throw
                       ELSE Ok(Obj([key \in {"_t", "code"} |->
                              IF key = "_t" THEN Field(r.value, "_t")
                              ELSE code.value])))

adminErr400Decoder(errorDecoder, blob) ==
  LET r == JD_object([key \in {"_t", "code"} |->
                        IF key = "_t" THEN DConstant("Err") ELSE DUnknown], blob)
  IN IF r.k # "ok" THEN r
     ELSE LET code == Verify(JD_either(DConstant("UNAUTHORISED"), errorDecoder,
                                       Field(r.value, "code")))
          IN Transform(IF code.k = "throw" THEN Throw
                       ELSE Ok(Obj([key \in {"_t", "code"} |->
                              IF key = "_t" THEN Field(r.value, "_t")
                              ELSE code.value])))

internalErr500Decoder(blob) ==
  JD_object([key \in {"_t", "errorID"} |->
               IF key = "_t" THEN DConstant("ServerError") ELSE DString], blob)

\* Variant of noUrlParamsDecoder: an object with no known keys is accepted.
noUrlParamsDecoderEmptyObject(blob) ==
  JD_object([key \in {} |-> DUnknown], blob)

noUrlParamsDecoder(blob) == JD_never(blob)

noBodyParamsDecoder(blob) == JD_never(blob)

----------------------------------------------------------------------------
(* The status functions the two factories return.  A selected decoder is   *)
(* kept as the name of the sub-decoder and the decoder it closes over.     *)

NoDecoder == [kind |-> "none", arg |-> NoArg]
Selected(kind, arg) == [thrown |-> FALSE, decoder |-> [kind |-> kind, arg |-> arg]]
InvalidStatus == [thrown |-> TRUE, decoder |-> NoDecoder]

\* Variant of responseDecoder: an unknown status falls back to the 500 decoder.
responseDecoderFallback(errorDecoder, dataDecoder, status) ==
  CASE status = 200 -> Selected("ok200Decoder", dataDecoder)
    [] status = 400 -> Selected("err400Decoder", errorDecoder)
    [] OTHER -> Selected("internalErr500Decoder", NoArg)

\* Variant of responseDecoder: status 500 is decoded as a domain error.
responseDecoder500AsErr(errorDecoder, dataDecoder, status) ==
  CASE status = 200 -> Selected("ok200Decoder", dataDecoder)
    [] status \in {400, 500} -> Selected("err400Decoder", errorDecoder)
    [] OTHER -> InvalidStatus

responseDecoder(errorDecoder, dataDecoder, status) ==
  CASE status = 200 -> Selected("ok200Decoder", dataDecoder)
    [] status = 400 -> Selected("err400Decoder", errorDecoder)
    [] status = 500 -> Selected("internalErr500Decoder", NoArg)
    [] OTHER -> InvalidStatus

authResponseDecoder(errorDecoder, dataDecoder, status) ==
  CASE status = 200 -> Selected("ok200Decoder", dataDecoder)
    [] status = 400 -> Selected("authErr400Decoder", errorDecoder)
    [] status = 500 -> Selected("internalErr500Decoder", NoArg)
    [] OTHER -> InvalidStatus

\* decoder.decode(blob) for a decoder the module hands out.
Apply(dec, blob) ==
  CASE dec.kind = "ok200Decoder" -> ok200Decoder(dec.arg, blob)
    [] dec.kind = "err400Decoder" -> err400Decoder(dec.arg, blob)
    [] dec.kind = "authErr400Decoder" -> authErr400Decoder(dec.arg, blob)
    [] dec.kind = "adminErr400Decoder" -> adminErr400Decoder(dec.arg, blob)
    [] dec.kind = "internalErr500Decoder" -> internalErr500Decoder(blob)
    [] dec.kind = "noUrlParamsDecoder" -> noUrlParamsDecoder(blob)
    [] dec.kind = "noBodyParamsDecoder" -> noBodyParamsDecoder(blob)

----------------------------------------------------------------------------
(* Inputs.                                                                 *)

ValidStatuses == {200, 400, 500}
Statuses == ValidStatuses \cup {0, 199, 201, 204, 399, 401, 404, 499, 501}

Tags == {"Ok", "Err", "ServerError"}
FieldValues ==
  {Null, Unauthorised, Str("NOT_FOUND"), Str("")} \cup {Num(n) : n \in 0..MaxNum}
TagValues == FieldValues \cup {Str(s) : s \in Tags}
Keys == {"_t", "data", "code", "errorID"}

Objects ==
  {Obj(f) : f \in UNION {{g \in [S -> TagValues] :
                            \A key \in S \ {"_t"} : g[key] \in FieldValues}
                         : S \in SUBSET Keys}}
Payloads == Objects \cup {Null, Arr, Str("Ok"), Num(0)}

----------------------------------------------------------------------------
(* State: the factory built (if any), the status passed to its status      *)
(* function, whether that call threw, the decoder in hand, and the payload *)
(* and outcome of the decode call made with it.                            *)

VARIABLES factory, status, raised, decoder, payload, outcome

vars == <<factory, status, raised, decoder, payload, outcome>>

NoFactory == [family |-> "none", errorDecoder |-> NoArg, dataDecoder |-> NoArg]
NoStatus == 0 - 1
NoPayload == [t |-> "nopayload"]
NoOutcome == [k |-> "none", value |-> Undef]

Init ==
  /\ factory = NoFactory
  /\ status = NoStatus
  /\ raised = FALSE
  /\ decoder = NoDecoder
  /\ payload = NoPayload
  /\ outcome = NoOutcome

Fresh == factory = NoFactory /\ decoder = NoDecoder

\* responseDecoder(errorDecoder, dataDecoder)
CallResponseDecoder ==
  /\ Fresh
  /\ \E e \in CallerDecoders, d \in CallerDecoders :
       factory' = [family |-> "plain", errorDecoder |-> e, dataDecoder |-> d]
  /\ UNCHANGED <<status, raised, decoder, payload, outcome>>

\* authResponseDecoder(errorDecoder, dataDecoder)
CallAuthResponseDecoder ==
  /\ Fresh
  /\ \E e \in CallerDecoders, d \in CallerDecoders :
       factory' = [family |-> "auth", errorDecoder |-> e, dataDecoder |-> d]
  /\ UNCHANGED <<status, raised, decoder, payload, outcome>>

\* The returned function applied to a status.
CallStatus ==
  /\ factory # NoFactory
  /\ status = NoStatus
  /\ \E s \in Statuses :
       LET r == IF factory.family = "plain"
                THEN responseDecoder(factory.errorDecoder, factory.dataDecoder, s)
                ELSE authResponseDecoder(factory.errorDecoder, factory.dataDecoder, s)
       IN /\ status' = s
          /\ raised' = r.thrown
          /\ decoder' = r.decoder
  /\ UNCHANGED <<factory, payload, outcome>>

\* A sub-decoder built directly (all five are exported).
CallSubDecoder ==
  /\ Fresh
  /\ \/ \E kind \in {"ok200Decoder", "err400Decoder", "authErr400Decoder",
                     "adminErr400Decoder"}, arg \in CallerDecoders :
          decoder' = [kind |-> kind, arg |-> arg]
     \/ decoder' = [kind |-> "internalErr500Decoder", arg |-> NoArg]
  /\ UNCHANGED <<factory, status, raised, payload, outcome>>

\* One of the two no-op decoders taken from the module.
UseNoParamsDecoder ==
  /\ Fresh
  /\ \E kind \in {"noUrlParamsDecoder", "noBodyParamsDecoder"} :
       decoder' = [kind |-> kind, arg |-> NoArg]
  /\ UNCHANGED <<factory, status, raised, payload, outcome>>

\* decoder.decode(payload)
Decode ==
  /\ decoder # NoDecoder
  /\ outcome = NoOutcome
  /\ \E blob \in Payloads :
       /\ payload' = blob
       /\ outcome' = Apply(decoder, blob)
  /\ UNCHANGED <<factory, status, raised, decoder>>

Next ==
  \/ CallResponseDecoder
  \/ CallAuthResponseDecoder
  \/ CallStatus
  \/ CallSubDecoder
  \/ UseNoParamsDecoder
  \/ Decode

Spec == Init /\ [][Next]_vars

----------------------------------------------------------------------------
(* Properties.                                                             *)

ViaFactory == factory # NoFactory
Decoded == outcome # NoOutcome

\* The envelope { _t: tag, <key>: v }.
Envelope(tag, key, v) ==
  Obj([x \in {"_t", key} |-> IF x = "_t" THEN Str(tag) ELSE v])

TagOf(s) == CASE s = 200 -> "Ok" [] s = 400 -> "Err" [] s = 500 -> "ServerError"
KeyOf(s) == CASE s = 200 -> "data" [] s = 400 -> "code" [] s = 500 -> "errorID"

\* C1: for both factories, a status outside {200, 400, 500} makes the status
\* function throw: no decoder is returned and no payload is ever examined;
\* an ordinary decode failure is never accompanied by that throw.
C1_InvalidStatusRaises ==
  /\ (ViaFactory /\ status # NoStatus /\ status \notin ValidStatuses)
       => (raised /\ decoder = NoDecoder /\ payload = NoPayload /\ ~Decoded)
  /\ Decoded => ~raised

C1_Witness ==
  factory.family = "auth" /\ status = 201 /\ raised /\ decoder = NoDecoder

\* C2: at status 200 (either factory) a payload { _t: "Ok", data: d } whose
\* d satisfies dataDecoder decodes to { _t: "Ok", data: d' }, d' being what
\* dataDecoder produces for d.
C2_Ok200YieldsDecodedData ==
  (/\ ViaFactory /\ status = 200 /\ Decoded
   /\ Field(payload, "_t") = Str("Ok")
   /\ "data" \in DOMAIN payload.f
   /\ Run(factory.dataDecoder, payload.f["data"]).k = "ok")
    => outcome = Ok(Envelope("Ok", "data",
                      Run(factory.dataDecoder, payload.f["data"]).value))

C2_Witness ==
  /\ ViaFactory /\ status = 200
  /\ factory.dataDecoder = DStringLength
  /\ payload = Envelope("Ok", "data", Str("NOT_FOUND"))
  /\ outcome = Ok(Envelope("Ok", "data", Num(9)))

\* C3: at status 200 a payload whose data does not satisfy dataDecoder fails
\* to decode, as an ordinary decode failure: no Ok result, no exception, no
\* contract violation.
C3_InvalidDataFails ==
  (/\ ViaFactory /\ status = 200 /\ Decoded
   /\ Run(factory.dataDecoder, Field(payload, "data")).k # "ok")
    => (outcome = Err /\ ~raised)

C3_Witness ==
  /\ ViaFactory /\ status = 200
  /\ factory.dataDecoder = DString
  /\ payload = Envelope("Ok", "data", Num(0))
  /\ outcome = Err

UnauthorisedPayload == Envelope("Err", "code", Unauthorised)

\* C4 as stated: at status 400, { _t: "Err", code: "UNAUTHORISED" } fails with
\* the plain decoder and succeeds unchanged with the authenticated one, for
\* every errorDecoder and dataDecoder.
C4_Original ==
  (ViaFactory /\ status = 400 /\ Decoded /\ payload = UnauthorisedPayload)
    => IF factory.family = "plain" THEN outcome.k # "ok"
       ELSE outcome = Ok(UnauthorisedPayload)

\* C4 amended: with the plain decoder the payload fails exactly when
\* errorDecoder rejects "UNAUTHORISED" (otherwise it yields errorDecoder's
\* output as code); with the authenticated decoder it always succeeds
\* unchanged.
C4_Amended ==
  (ViaFactory /\ status = 400 /\ Decoded /\ payload = UnauthorisedPayload)
    => IF factory.family = "plain"
       THEN LET c == Run(factory.errorDecoder, Unauthorised)
            IN IF c.k = "ok" THEN outcome = Ok(Envelope("Err", "code", c.value))
               ELSE outcome = Err
       ELSE outcome = Ok(UnauthorisedPayload)

C4_Witness ==
  /\ factory.family = "plain" /\ status = 400
  /\ factory.errorDecoder = DConstant("NOT_FOUND")
  /\ payload = UnauthorisedPayload
  /\ outcome = Err

RequiredTag(kind) ==
  CASE kind = "ok200Decoder" -> "Ok"
    [] kind = "internalErr500Decoder" -> "ServerError"
    [] OTHER -> "Err"
RequiredKey(kind) ==
  CASE kind = "ok200Decoder" -> "data"
    [] kind = "internalErr500Decoder" -> "errorID"
    [] OTHER -> "code"
SubDecoders ==
  {"ok200Decoder", "err400Decoder", "authErr400Decoder", "adminErr400Decoder",
   "internalErr500Decoder"}

\* C5: every sub-decoder rejects an object that lacks its required field or
\* whose _t is not its tag, whatever dataDecoder / errorDecoder it closes over.
C5_RejectsMissingFieldOrTag ==
  (/\ decoder.kind \in SubDecoders /\ Decoded
   /\ \/ payload.t # "obj"
      \/ RequiredKey(decoder.kind) \notin DOMAIN payload.f
      \/ Field(payload, "_t") # Str(RequiredTag(decoder.kind)))
    => outcome.k # "ok"

\* C6: at status 500 every { _t: "ServerError", errorID: s } with s a string
\* decodes to itself, and the outcome on any payload is the one every other
\* choice of errorDecoder / dataDecoder gives, for both factories.
C6_ServerErrorIndependent ==
  (ViaFactory /\ status = 500 /\ Decoded)
    => /\ (Field(payload, "_t") = Str("ServerError")
           /\ Field(payload, "errorID").t = "str")
            => outcome = Ok(Envelope("ServerError", "errorID",
                                     Field(payload, "errorID")))
       /\ \A e \in CallerDecoders, d \in CallerDecoders :
            /\ Apply(responseDecoder(e, d, 500).decoder, payload) = outcome
            /\ Apply(authResponseDecoder(e, d, 500).decoder, payload) = outcome

C6_Witness ==
  /\ factory.family = "plain" /\ status = 500
  /\ factory.errorDecoder = DUnknown
  /\ payload = Envelope("ServerError", "errorID", Str(""))
  /\ outcome = Ok(payload)

\* C7: the two no-op decoders reject every input.
C7_NoOpDecodersReject ==
  (decoder.kind \in {"noUrlParamsDecoder", "noBodyParamsDecoder"} /\ Decoded)
    => outcome = Err

C7_Witness ==
  /\ decoder.kind = "noUrlParamsDecoder"
  /\ payload = Obj([x \in {} |-> Undef])
  /\ outcome = Err

\* C9: through either factory a decode either fails or yields exactly the
\* variant of its status: tag and field fixed by the status, and only for a
\* payload that carries that tag.
C9_StatusFixesVariant ==
  (ViaFactory /\ Decoded)
    => /\ status \in ValidStatuses
       /\ outcome.k \in {"ok", "err"}
       /\ outcome.k = "ok"
            => /\ outcome.value.t = "obj"
               /\ DOMAIN outcome.value.f = {"_t", KeyOf(status)}
               /\ outcome.value.f["_t"] = Str(TagOf(status))
               /\ Field(payload, "_t") = Str(TagOf(status))

C9_Witness ==
  /\ ViaFactory /\ status = 200
  /\ Field(payload, "_t") = Str("Err")
  /\ "data" \in DOMAIN payload.f
  /\ outcome = Err

\* C10: whatever the plain factory decodes, the authenticated factory built
\* from the same decoders decodes too, to the same result unless code is the
\* literal "UNAUTHORISED", where the authenticated result carries the literal.
C10_AuthAcceptsSuperset ==
  (factory.family = "plain" /\ Decoded /\ outcome.k = "ok")
    => LET a == Apply(authResponseDecoder(factory.errorDecoder,
                        factory.dataDecoder, status).decoder, payload)
       IN /\ a.k = "ok"
          /\ IF status = 400 /\ Field(payload, "code") = Unauthorised
             THEN a = Ok(UnauthorisedPayload)
             ELSE a = outcome

C10_Witness ==
  /\ factory.family = "plain" /\ status = 400
  /\ factory.errorDecoder = DStringLength
  /\ Field(payload, "code") = Unauthorised
  /\ outcome = Ok(Envelope("Err", "code", Num(12)))

====
